---- MODULE Spec2Model ----
(***************************************************************************)
(* The command bridge of xray-desktop (src-tauri/src/main.rs): the six     *)
(* tauri commands, run_bridge, and the backend process each call spawns.   *)
(*                                                                         *)
(* A text (a Rust String, a byte buffer) is a sequence of tokens, each     *)
(* token standing for one character or one indivisible run of characters.  *)
(* The token BAD is a byte that is not valid UTF-8.                        *)
(***************************************************************************)
EXTENDS Integers, Sequences, FiniteSets, TLC

\* ------------------------------------------------------------------ bounds
\* Number of Calls the host may have in flight at once.
NumCalls == 2
\* Longest run of whitespace the backend puts before / after its output.
MaxPad == 1

\* ------------------------------------------------------------------- texts
DQ == "\""
BAD == "0xFF"
REPLACEMENT == "U+FFFD"
NBSP == "U+00A0"

\* char::is_whitespace, as used by str::trim (Unicode White_Space).
IsWhitespace(ch) == ch \in {" ", "\n", NBSP}

\* The whitespace serde_json skips between tokens.
IsJsonWs(ch) == ch \in {" ", "\n"}

RECURSIVE TrimStart(_)
TrimStart(s) ==
  IF s # <<>> /\ IsWhitespace(Head(s)) THEN TrimStart(Tail(s)) ELSE s

RECURSIVE TrimEnd(_)
TrimEnd(s) ==
  IF s # <<>> /\ IsWhitespace(s[Len(s)]) THEN TrimEnd(SubSeq(s, 1, Len(s) - 1)) ELSE s

\* str::trim
Trim(s) == TrimEnd(TrimStart(s))

\* String::from_utf8: the bytes unchanged, or an error when a byte is invalid.
IsUtf8(bytes) == \A i \in DOMAIN bytes : bytes[i] # BAD

\* String::from_utf8_lossy: an invalid byte becomes U+FFFD.
FromUtf8Lossy(bytes) ==
  [i \in DOMAIN bytes |-> IF bytes[i] = BAD THEN REPLACEMENT ELSE bytes[i]]

\* ------------------------------------------------------------- JSON values
\* serde_json::Value
JNull == [t |-> "null"]
JBool(b) == [t |-> "bool", v |-> b]
JNum(n) == [t |-> "num", v |-> n]
JStr(s) == [t |-> "str", v |-> s]
JArr(a) == [t |-> "arr", v |-> a]
JObj(m) == [t |-> "obj", v |-> m]
EmptyMap == [k \in {} |-> JNull]
\* the unit value () of the commands that return no value
Unit == [t |-> "unit"]

\* Option<T>
None == [t |-> "none"]
Some(x) == [t |-> "some", v |-> x]

\* Result<Value, String>
Ok(v) == [ok |-> TRUE, val |-> v, msg |-> <<>>]
Err(m) == [ok |-> FALSE, val |-> JNull, msg |-> m]

\* ------------------------------------------------------------- JSON parser
\* A parse step: the value read and the text left, or an error.
POk(v, r) == [ok |-> TRUE, v |-> v, r |-> r, e |-> ""]
PErr(e) == [ok |-> FALSE, v |-> JNull, r |-> <<>>, e |-> e]

Digits == {"0", "1"}

RECURSIVE SkipWs(_)
SkipWs(s) == IF s # <<>> /\ IsJsonWs(Head(s)) THEN SkipWs(Tail(s)) ELSE s

\* The characters of a string literal, s being the text after its opening quote.
RECURSIVE ParseStr(_, _)
ParseStr(s, acc) ==
  IF s = <<>> THEN PErr("EOF while parsing a string")
  ELSE IF Head(s) = DQ THEN POk(acc, Tail(s))
  ELSE IF Head(s) = "\n" THEN PErr("control character while parsing a string")
  ELSE ParseStr(Tail(s), Append(acc, Head(s)))

RECURSIVE ParseValue(_), ParseArray(_, _, _), ParseObject(_, _, _)

\* A string literal as a Value, p being what ParseStr read.
StrValue(p) == IF p.ok THEN POk(JStr(p.v), p.r) ELSE p

\* Deserialize for serde_json::Value at s1, which starts with no whitespace.
ParseValueAt(s1) ==
  IF s1 = <<>> THEN PErr("EOF while parsing a value")
  ELSE CASE Head(s1) = "null" -> POk(JNull, Tail(s1))
         [] Head(s1) = "true" -> POk(JBool(TRUE), Tail(s1))
         [] Head(s1) = "false" -> POk(JBool(FALSE), Tail(s1))
         [] Head(s1) \in Digits -> POk(JNum(Head(s1)), Tail(s1))
         [] Head(s1) = DQ -> StrValue(ParseStr(Tail(s1), <<>>))
         [] Head(s1) = "[" -> ParseArray(Tail(s1), <<>>, TRUE)
         [] Head(s1) = "{" -> ParseObject(Tail(s1), EmptyMap, TRUE)
         [] OTHER -> PErr("expected value")

\* Deserialize for serde_json::Value
ParseValue(s) == ParseValueAt(SkipWs(s))

\* After an element v of an array: a comma and more elements, or the end.
ArrayAfter(s2, acc) ==
  IF s2 = <<>> THEN PErr("EOF while parsing a list")
  ELSE IF Head(s2) = "," THEN ParseArray(Tail(s2), acc, FALSE)
  ELSE IF Head(s2) = "]" THEN POk(JArr(acc), Tail(s2))
  ELSE PErr("expected , or ]")

ArrayElem(p, acc) == IF ~p.ok THEN p ELSE ArrayAfter(SkipWs(p.r), Append(acc, p.v))

ArrayAt(s1, acc, first) ==
  IF s1 = <<>> THEN PErr("EOF while parsing a list")
  ELSE IF first /\ Head(s1) = "]" THEN POk(JArr(acc), Tail(s1))
  ELSE ArrayElem(ParseValueAt(s1), acc)

\* The elements of an array, s being the text after "[" or after a ",".
ParseArray(s, acc, first) == ArrayAt(SkipWs(s), acc, first)

\* A key and its colon: the key and the text after the colon.
KeyColon(k, s2) ==
  IF s2 = <<>> \/ Head(s2) # ":" THEN PErr("expected :") ELSE POk(k, Tail(s2))

KeyRead(k) == IF ~k.ok THEN k ELSE KeyColon(k.v, SkipWs(k.r))

\* MapAccess::next_key at s1, which starts with no whitespace.
ReadKey(s1) ==
  IF Head(s1) # DQ THEN PErr("key must be a string")
  ELSE KeyRead(ParseStr(Tail(s1), <<>>))

\* After a member of an object: a comma and more members, or the end.
\* A repeated key keeps its last value (serde_json::Map::insert).
ObjectAfter(s3, m) ==
  IF s3 = <<>> THEN PErr("EOF while parsing an object")
  ELSE IF Head(s3) = "," THEN ParseObject(Tail(s3), m, FALSE)
  ELSE IF Head(s3) = "}" THEN POk(JObj(m), Tail(s3))
  ELSE PErr("expected , or }")

ObjectValue(key, p, acc) ==
  IF ~p.ok THEN p ELSE ObjectAfter(SkipWs(p.r), (key :> p.v) @@ acc)

ObjectMember(k, acc) == IF ~k.ok THEN k ELSE ObjectValue(k.v, ParseValue(k.r), acc)

ObjectAt(s1, acc, first) ==
  IF s1 = <<>> THEN PErr("EOF while parsing an object")
  ELSE IF first /\ Head(s1) = "}" THEN POk(JObj(acc), Tail(s1))
  ELSE ObjectMember(ReadKey(s1), acc)

\* The members of an object, s being the text after "{" or after a ",".
ParseObject(s, acc, first) == ObjectAt(SkipWs(s), acc, first)

\* ------------------------------------------------- BridgeResponse (serde)
\* bool::deserialize
DeBool(s) ==
  IF SkipWs(s) = <<>> THEN PErr("EOF while parsing a value")
  ELSE IF Head(SkipWs(s)) = "true" THEN POk(TRUE, Tail(SkipWs(s)))
  ELSE IF Head(SkipWs(s)) = "false" THEN POk(FALSE, Tail(SkipWs(s)))
  ELSE PErr("invalid type: expected a boolean")

SomeOf(p) == IF p.ok THEN POk(Some(p.v), p.r) ELSE p

\* Option<Value>::deserialize: null is None, any other value is Some.
DeOptValue(s) ==
  IF SkipWs(s) # <<>> /\ Head(SkipWs(s)) = "null" THEN POk(None, Tail(SkipWs(s)))
  ELSE SomeOf(ParseValue(s))

\* Option<String>::deserialize: null is None, a string is Some.
DeOptString(s) ==
  IF SkipWs(s) = <<>> THEN PErr("EOF while parsing a value")
  ELSE IF Head(SkipWs(s)) = "null" THEN POk(None, Tail(SkipWs(s)))
  ELSE IF Head(SkipWs(s)) = DQ THEN SomeOf(ParseStr(Tail(SkipWs(s)), <<>>))
  ELSE PErr("invalid type: expected a string")

\* struct BridgeResponse { ok: bool, data: Option<Value>, error: Option<String> }
BridgeResponse(ok, data, error) == [ok |-> ok, data |-> data, error |-> error]
FieldNames == <<"ok", "data", "error">>

\* The derived field identifier of a key; "" for a key that names no field.
FieldOf(key) == IF key \in {<<"ok">>, <<"data">>, <<"error">>} THEN key[1] ELSE ""

\* The value of field f, read by the deserializer of its type; the value of
\* an unknown key is read and ignored.
ReadField(f, s) ==
  CASE f = "ok" -> DeBool(s)
    [] f = "data" -> DeOptValue(s)
    [] f = "error" -> DeOptString(s)
    [] OTHER -> ParseValue(s)

\* The fields read so far by the derived visitor; seen holds their names.
NoFields == [seen |-> {}, ok |-> FALSE, data |-> None, error |-> None]

StoreField(acc, f, v) ==
  CASE f = "ok" -> [acc EXCEPT !.seen = @ \cup {f}, !.ok = v]
    [] f = "data" -> [acc EXCEPT !.seen = @ \cup {f}, !.data = v]
    [] f = "error" -> [acc EXCEPT !.seen = @ \cup {f}, !.error = v]
    [] OTHER -> acc

\* The end of the derived visit_map: ok is required, an Option field that is
\* missing is None.
FinishMap(acc, r) ==
  IF "ok" \notin acc.seen THEN PErr("missing field ok")
  ELSE POk(BridgeResponse(acc.ok, acc.data, acc.error), r)

RECURSIVE VisitMap(_, _, _)

MapAfter(s3, acc) ==
  IF s3 = <<>> THEN PErr("EOF while parsing an object")
  ELSE IF Head(s3) = "," THEN VisitMap(Tail(s3), acc, FALSE)
  ELSE IF Head(s3) = "}" THEN FinishMap(acc, Tail(s3))
  ELSE PErr("expected , or }")

MapValue(f, p, acc) ==
  IF ~p.ok THEN p ELSE MapAfter(SkipWs(p.r), StoreField(acc, f, p.v))

\* A known field may not repeat.
MapField(f, s, acc) ==
  IF f \in acc.seen THEN PErr("duplicate field") ELSE MapValue(f, ReadField(f, s), acc)

MapMember(k, acc) == IF ~k.ok THEN k ELSE MapField(FieldOf(k.v), k.r, acc)

MapAt(s1, acc, first) ==
  IF s1 = <<>> THEN PErr("EOF while parsing an object")
  ELSE IF first /\ Head(s1) = "}" THEN FinishMap(acc, Tail(s1))
  ELSE MapMember(ReadKey(s1), acc)

\* The derived visit_map, s being the text after "{" or after a ",".
VisitMap(s, acc, first) == MapAt(SkipWs(s), acc, first)

\* Whether the text after a "," starts another element.
AfterComma(s2) ==
  IF s2 = <<>> \/ Head(s2) = "]" THEN [ok |-> FALSE, more |-> FALSE, r |-> <<>>]
  ELSE [ok |-> TRUE, more |-> TRUE, r |-> s2]

SeqNextAt(s1, first) ==
  IF s1 = <<>> THEN [ok |-> FALSE, more |-> FALSE, r |-> <<>>]
  ELSE IF Head(s1) = "]" THEN [ok |-> TRUE, more |-> FALSE, r |-> s1]
  ELSE IF first THEN [ok |-> TRUE, more |-> TRUE, r |-> s1]
  ELSE IF Head(s1) # "," THEN [ok |-> FALSE, more |-> FALSE, r |-> <<>>]
  ELSE AfterComma(SkipWs(Tail(s1)))

\* SeqAccess::next_element positions the reader at the next element of an
\* array: more is FALSE at the closing bracket.
SeqNext(s, first) == SeqNextAt(SkipWs(s), first)

RECURSIVE VisitSeqFrom(_, _, _)

\* Nothing may follow the last field.
SeqEnd(s3, vals) ==
  IF s3 = <<>> THEN PErr("EOF while parsing a list")
  ELSE IF Head(s3) # "]" THEN PErr("trailing characters")
  ELSE POk(BridgeResponse(vals[1], vals[2], vals[3]), Tail(s3))

SeqStore(p, i, vals) == IF ~p.ok THEN p ELSE VisitSeqFrom(p.r, i + 1, Append(vals, p.v))

SeqElem(n, i, vals) ==
  IF ~n.ok THEN PErr("syntax error in a list")
  ELSE IF ~n.more THEN PErr("invalid length")
  ELSE SeqStore(ReadField(FieldNames[i], n.r), i, vals)

\* The derived visit_seq from field i on: the fields in declaration order,
\* every one of them required.
VisitSeqFrom(s, i, vals) ==
  IF i > Len(FieldNames) THEN SeqEnd(SkipWs(s), vals)
  ELSE SeqElem(SeqNext(s, i = 1), i, vals)

\* The derived visit_seq, s being the text after "[".
VisitSeq(s) == VisitSeqFrom(s, 1, <<>>)

\* Deserializer::deserialize_struct at s1: a struct is read from an object
\* or from an array of its fields; anything else is an error.
StructAt(s1) ==
  IF s1 = <<>> THEN PErr("EOF while parsing a value")
  ELSE IF Head(s1) = "{" THEN VisitMap(Tail(s1), NoFields, TRUE)
  ELSE IF Head(s1) = "[" THEN VisitSeq(Tail(s1))
  ELSE PErr("invalid type: expected struct BridgeResponse")

DeserializeStruct(s) == StructAt(SkipWs(s))

\* Deserializer::end: only whitespace may follow the value.
End(p) ==
  IF ~p.ok THEN p
  ELSE IF SkipWs(p.r) # <<>> THEN PErr("trailing characters")
  ELSE p

\* serde_json::from_str::<BridgeResponse>
FromStr(s) == End(DeserializeStruct(s))

\* --------------------------------------------------------- serialization
\* The keys of a serde_json::Map in the order it iterates them (a BTreeMap:
\* sorted), for the keys the payloads use.
KeyOrder == <<"adminApiKey", "baseUrl", "disguise", "mode", "serverId", "sni", "token">>

RECURSIVE ToTokens(_), ArrTokens(_, _), ObjTokens(_, _, _)
\* Serialize for serde_json::Value, compact
ToTokens(v) ==
  CASE v.t = "null" -> <<"null">>
    [] v.t = "bool" -> IF v.v THEN <<"true">> ELSE <<"false">>
    [] v.t = "num" -> <<v.v>>
    [] v.t = "str" -> <<DQ>> \o v.v \o <<DQ>>
    [] v.t = "arr" -> <<"[">> \o ArrTokens(v.v, 1) \o <<"]">>
    [] v.t = "obj" -> <<"{">> \o ObjTokens(v.v, 1, TRUE) \o <<"}">>

ArrTokens(a, i) ==
  IF i > Len(a) THEN <<>>
  ELSE (IF i > 1 THEN <<",">> ELSE <<>>) \o ToTokens(a[i]) \o ArrTokens(a, i + 1)

ObjTokens(m, i, first) ==
  IF i > Len(KeyOrder) THEN <<>>
  ELSE IF <<KeyOrder[i]>> \notin DOMAIN m THEN ObjTokens(m, i + 1, first)
  ELSE (IF first THEN <<>> ELSE <<",">>)
       \o <<DQ, KeyOrder[i], DQ, ":">> \o ToTokens(m[<<KeyOrder[i]>>])
       \o ObjTokens(m, i + 1, FALSE)

\* serde_json::to_string(&payload): a Value has string keys and finite
\* numbers only, so its serialization never returns the error.
ToJsonString(v) == [ok |-> TRUE, text |-> ToTokens(v), e |-> <<>>]

\* -------------------------------------------------------------- run_bridge
BridgeScriptPath == "../backend/desktop-bridge.cjs"

EmptyResponseMsg == <<"Bridge returned empty response">>
UnknownErrorMsg == <<"Unknown bridge error">>
InvalidJsonPrefix == "Invalid bridge JSON: "
SpawnFailedPrefix == "Failed to run bridge: "

\* Option::unwrap_or
UnwrapOr(o, d) == IF o = None THEN d ELSE o.v

\* Mutant: the empty-output branch forgets the captured stderr.
EmptyOutputSentinelOnly(stderr) == Err(EmptyResponseMsg)

\* if stdout_trimmed.is_empty() { ... }
EmptyOutput(stderr) ==
  IF stderr = <<>> THEN Err(EmptyResponseMsg) ELSE Err(stderr)

\* Mutant: the captured stderr takes priority over the envelope's error.
ErrorMessageStderrFirst(response, stderr) ==
  IF stderr # <<>> THEN stderr
  ELSE IF response.error # None THEN response.error.v
  ELSE UnknownErrorMsg

\* response.error.or_else(stderr if not empty).unwrap_or_else(sentinel)
ErrorMessage(response, stderr) ==
  IF response.error # None THEN response.error.v
  ELSE IF stderr # <<>> THEN stderr
  ELSE UnknownErrorMsg

\* Mutant: a successful envelope fails when the backend wrote to stderr.
ClassifyStderrFails(response, stderr) ==
  IF response.ok /\ stderr = <<>> THEN Ok(UnwrapOr(response.data, JNull))
  ELSE Err(ErrorMessage(response, stderr))

\* if response.ok { Ok(data or Null) } else { Err(message) }
Classify(response, stderr) ==
  IF response.ok THEN Ok(UnwrapOr(response.data, JNull))
  ELSE Err(ErrorMessage(response, stderr))

\* What run_bridge did with an output: the result it returned, and whether
\* it got to serde_json::from_str.
Ran(result, parsed) == [result |-> result, parsed |-> parsed]

\* let response = serde_json::from_str(stdout_trimmed).map_err(..)?; and the
\* classification of the response.
ParseAndClassify(p, stderr) ==
  IF ~p.ok THEN Err(<<InvalidJsonPrefix, p.e>>) ELSE Classify(p.v, stderr)

\* run_bridge from the captured streams on: decode, trim, parse, classify.
DecodeOutput(stdoutBytes, stderrBytes) ==
  IF ~IsUtf8(stdoutBytes) THEN Ran(Err(<<"invalid utf-8 sequence">>), FALSE)
  ELSE IF Trim(stdoutBytes) = <<>>
       THEN Ran(EmptyOutput(Trim(FromUtf8Lossy(stderrBytes))), FALSE)
  ELSE Ran(ParseAndClassify(FromStr(Trim(stdoutBytes)), Trim(FromUtf8Lossy(stderrBytes))),
           TRUE)

\* Mutant: a non-zero exit status is a failure.
FromOutputChecksStatus(output) ==
  IF output.status # 0 THEN Ran(Err(<<"Bridge exited with an error">>), FALSE)
  ELSE DecodeOutput(output.stdout, output.stderr)

\* run_bridge after Command::output() returned Ok(output): output.status is
\* never read.
FromOutput(output) == DecodeOutput(output.stdout, output.stderr)

\* .map_err(|error| format!("Failed to run bridge: {}", error))
SpawnError(ioError) == Err(<<SpawnFailedPrefix, ioError>>)

\* -------------------------------------------------------------- dispatcher
Commands == {"importToken", "connect", "setMode", "disconnect", "updateDisguise", "status"}

\* json!({ "baseUrl": baseUrl, "token": token })
ImportTokenPayload(baseUrl, token) ==
  JObj((<<"baseUrl">> :> JStr(baseUrl)) @@ (<<"token">> :> JStr(token)))

\* Mutant: the mode goes under another field name.
SetModePayloadWrongKey(mode) == JObj(<<"name">> :> JStr(mode))

\* json!({ "mode": mode })
SetModePayload(mode) == JObj(<<"mode">> :> JStr(mode))

\* json!({ "baseUrl": .., "serverId": .., "adminApiKey": .., "disguise": .. })
UpdateDisguisePayload(baseUrl, serverId, adminApiKey, disguise) ==
  JObj((<<"baseUrl">> :> JStr(baseUrl)) @@ (<<"serverId">> :> JStr(serverId))
       @@ (<<"adminApiKey">> :> JStr(adminApiKey)) @@ (<<"disguise">> :> disguise))

\* The payload connect, disconnect and status pass: Value::Null
NoArgsPayload == JNull

\* Mutant: no command drops the value.
AdaptKeepsValue(name, r) == r

\* What a command makes of run_bridge's result: importToken and disconnect
\* end in .map(|_| ()), the others return it as it is.
Adapt(name, r) ==
  IF name \in {"importToken", "disconnect"} /\ r.ok THEN Ok(Unit) ELSE r

\* ------------------------------------------------------------------ inputs
Q(w) == <<DQ, w, DQ>>
OkTrue == Q("ok") \o <<":", "true">>
OkFalse == Q("ok") \o <<":", "false">>

\* What a backend may write to its standard output, before padding.
Docs ==
  { <<>>,
    <<NBSP>>,
    <<BAD>>,
    <<"{">> \o OkTrue \o <<"}">>,
    <<"{">> \o OkTrue \o <<",">> \o Q("data") \o <<":", "1", "}">>,
    <<"{">> \o OkTrue \o <<",">> \o Q("data") \o <<":", "null", "}">>,
    <<"{">> \o OkTrue \o <<",">> \o Q("data") \o <<":", "{">> \o Q("connected")
            \o <<":", "false", "}", "}">>,
    <<"{">> \o Q("data") \o <<":">> \o Q("x") \o <<",">> \o Q("error") \o <<":">>
            \o Q("e") \o <<",", " ">> \o OkTrue \o <<"}">>,
    <<"{">> \o OkTrue \o <<",">> \o Q("extra") \o <<":", "[", "1", "]", "}">>,
    <<"{">> \o OkFalse \o <<"}">>,
    <<"{">> \o OkFalse \o <<",">> \o Q("error") \o <<":", DQ, "invalid", " ", "token", DQ, "}">>,
    <<"{">> \o OkFalse \o <<",">> \o Q("error") \o <<":", DQ, DQ, "}">>,
    <<"{">> \o OkFalse \o <<",">> \o Q("error") \o <<":", "null", "}">>,
    <<"{">> \o OkFalse \o <<",">> \o Q("data") \o <<":", "1", "}">>,
    <<"{">> \o OkFalse \o <<",">> \o Q("error") \o <<":", "1", "}">>,
    <<"{">> \o Q("data") \o <<":", "1", "}">>,
    <<"{">> \o Q("ok") \o <<":", "1", "}">>,
    <<"{">> \o Q("ok") \o <<":">> \o Q("true") \o <<"}">>,
    <<"{">> \o OkTrue,
    <<"{">> \o OkTrue \o <<"}", "\n", "done">>,
    <<"{">> \o OkTrue \o <<",">> \o OkFalse \o <<"}">>,
    <<"oops">>,
    <<"true">>,
    Q("ok"),
    <<"[", "true", ",", "1", ",", "null", "]">>,
    <<"[", "false", ",", "null", ",">> \o Q("e") \o <<"]">>,
    <<"[", "true", "]">> }

RECURSIVE Pads(_)
\* The runs of whitespace of at most n characters.
Pads(n) ==
  IF n = 0 THEN {<<>>}
  ELSE Pads(n - 1) \cup {Append(p, w) : p \in {q \in Pads(n - 1) : Len(q) = n - 1}, w \in {" ", "\n"}}

Stdouts == {l \o d \o r : l \in Pads(MaxPad), d \in Docs, r \in Pads(MaxPad)}

Stderrs ==
  { <<>>, <<" ">>, <<"auth", " ", "expired">>, <<"\n", "warn", "\n">>, <<BAD>> }

ExitCodes == {0, 1}

\* std::process::Output
Outputs == [stdout : Stdouts, stderr : Stderrs, status : ExitCodes]

\* The outputs of the backends of concurrent Calls.
ConcOutputs ==
  [stdout : { <<>>,
              <<"{">> \o OkTrue \o <<",">> \o Q("data") \o <<":", "1", "}">>,
              <<"{">> \o OkFalse \o <<"}">> },
   stderr : { <<>>, <<"auth", " ", "expired">> },
   status : ExitCodes]

\* The outputs of the backends of the Calls whose progress is followed: an
\* empty one and an envelope, with either exit status.
LiveOutputs ==
  [stdout : { <<>>, <<"{">> \o OkTrue \o <<",">> \o Q("data") \o <<":", "1", "}">> },
   stderr : { <<"auth", " ", "expired">> },
   status : ExitCodes]

IoErrors == {"No such file or directory", "Permission denied"}

BaseUrls == {<<"https://a">>}
Tokens == {<<>>, <<"tok">>}
Modes == {<<"vpn">>, <<"proxy">>}
ServerIds == {<<"srv1">>}
AdminApiKeys == {<<"key">>}
Disguises == {JNull, JObj(<<"sni">> :> JStr(<<"example.com">>))}

\* run_bridge's handling of a captured output depends on the output alone:
\* its graph over the outputs the backends above produce, each output with
\* what FromOutput makes of it.
Handled == {<<o, FromOutput(o)>> : o \in Outputs \cup ConcOutputs \cup LiveOutputs}
Handlings == {h[2] : h \in Handled}

\* What run_bridge makes of the captured output o.
Handle(o) == CHOOSE r \in Handlings : <<o, r>> \in Handled

\* ------------------------------------------------------------------- state
Calls == 1 .. NumCalls

NoOutput == [stdout |-> <<>>, stderr |-> <<>>, status |-> 0]
Pending == [ok |-> FALSE, val |-> JNull, msg |-> <<"pending">>]

VARIABLES
  pc,            \* where each Call is: idle, called, spawn, wait, returned
  cmd,           \* the command the host invoked
  action,        \* run_bridge's action argument
  payload,       \* run_bridge's payload argument
  argv,          \* the arguments of the backend process
  proc,          \* the Call's child process: none, running, exited, reaped
  pipes,         \* the Call's ends of the child's stdout/stderr: none, open, closed
  out,           \* what the child wrote and its exit status
  bridgeResult,  \* what run_bridge returned
  opResult,      \* what the command returned
  bridgeCalls,   \* how many times the command called run_bridge
  spawns,        \* how many times run_bridge tried to spawn the backend
  parses         \* how many times run_bridge parsed an envelope

vars == <<pc, cmd, action, payload, argv, proc, pipes, out, bridgeResult, opResult,
          bridgeCalls, spawns, parses>>

Init ==
  /\ pc = [c \in Calls |-> "idle"]
  /\ cmd = [c \in Calls |-> ""]
  /\ action = [c \in Calls |-> ""]
  /\ payload = [c \in Calls |-> JNull]
  /\ argv = [c \in Calls |-> <<>>]
  /\ proc = [c \in Calls |-> "none"]
  /\ pipes = [c \in Calls |-> "none"]
  /\ out = [c \in Calls |-> NoOutput]
  /\ bridgeResult = [c \in Calls |-> Pending]
  /\ opResult = [c \in Calls |-> Pending]
  /\ bridgeCalls = [c \in Calls |-> 0]
  /\ spawns = [c \in Calls |-> 0]
  /\ parses = [c \in Calls |-> 0]

\* A command calls run_bridge(a, p).
Invoke(c, name, a, p) ==
  /\ cmd' = [cmd EXCEPT ![c] = name]
  /\ action' = [action EXCEPT ![c] = a]
  /\ payload' = [payload EXCEPT ![c] = p]
  /\ bridgeCalls' = [bridgeCalls EXCEPT ![c] = @ + 1]
  /\ pc' = [pc EXCEPT ![c] = "called"]
  /\ UNCHANGED <<argv, proc, pipes, out, bridgeResult, opResult, spawns, parses>>

importToken(c, baseUrl, token) ==
  /\ pc[c] = "idle"
  /\ Invoke(c, "importToken", "importToken", ImportTokenPayload(baseUrl, token))

connect(c) ==
  /\ pc[c] = "idle"
  /\ Invoke(c, "connect", "connect", NoArgsPayload)

setMode(c, mode) ==
  /\ pc[c] = "idle"
  /\ Invoke(c, "setMode", "setMode", SetModePayload(mode))

disconnect(c) ==
  /\ pc[c] = "idle"
  /\ Invoke(c, "disconnect", "disconnect", NoArgsPayload)

updateDisguise(c, baseUrl, serverId, adminApiKey, disguise) ==
  /\ pc[c] = "idle"
  /\ Invoke(c, "updateDisguise", "updateDisguise",
            UpdateDisguisePayload(baseUrl, serverId, adminApiKey, disguise))

status(c) ==
  /\ pc[c] = "idle"
  /\ Invoke(c, "status", "status", NoArgsPayload)

\* run_bridge returns r to the command, which returns Adapt(cmd, r) to the host.
ReturnWith(c, r) ==
  /\ bridgeResult' = [bridgeResult EXCEPT ![c] = r]
  /\ opResult' = [opResult EXCEPT ![c] = Adapt(cmd[c], r)]
  /\ pc' = [pc EXCEPT ![c] = "returned"]

\* let payload_json = serde_json::to_string(&payload).map_err(..)?; and the
\* building of the Command.
Serialize(c) ==
  /\ pc[c] = "called"
  /\ LET r == ToJsonString(payload[c]) IN
     IF r.ok
     THEN /\ argv' = [argv EXCEPT ![c] = <<BridgeScriptPath, action[c], r.text>>]
          /\ pc' = [pc EXCEPT ![c] = "spawn"]
          /\ UNCHANGED <<bridgeResult, opResult>>
     ELSE /\ ReturnWith(c, Err(r.e))
          /\ UNCHANGED argv
  /\ UNCHANGED <<cmd, action, payload, proc, pipes, out, bridgeCalls, spawns, parses>>

\* Mutant: a failed spawn is tried again.
RetrySpawn == "spawn"

\* Where run_bridge goes when the spawn failed: the ? returns the error.
AfterSpawnFailure == "returned"

\* .output(): the spawn succeeded; the caller now reads the pipes and waits.
SpawnOk(c) ==
  /\ pc[c] = "spawn"
  /\ spawns' = [spawns EXCEPT ![c] = @ + 1]
  /\ proc' = [proc EXCEPT ![c] = "running"]
  /\ pipes' = [pipes EXCEPT ![c] = "open"]
  /\ pc' = [pc EXCEPT ![c] = "wait"]
  /\ UNCHANGED <<cmd, action, payload, argv, out, bridgeResult, opResult, bridgeCalls, parses>>

\* .output(): the spawn failed with an io::Error.
SpawnFail(c) ==
  /\ pc[c] = "spawn"
  /\ spawns' = [spawns EXCEPT ![c] = @ + 1]
  /\ \E e \in IoErrors :
       /\ bridgeResult' = [bridgeResult EXCEPT ![c] = SpawnError(e)]
       /\ opResult' = [opResult EXCEPT ![c] = Adapt(cmd[c], SpawnError(e))]
  /\ pc' = [pc EXCEPT ![c] = AfterSpawnFailure]
  /\ UNCHANGED <<cmd, action, payload, argv, proc, pipes, out, bridgeCalls, parses>>

\* The backend process writes its output, closes its streams and exits.
ProcExit(c, outputs) ==
  /\ proc[c] = "running"
  /\ \E o \in outputs : out' = [out EXCEPT ![c] = o]
  /\ proc' = [proc EXCEPT ![c] = "exited"]
  /\ UNCHANGED <<pc, cmd, action, payload, argv, pipes, bridgeResult, opResult,
                 bridgeCalls, spawns, parses>>

\* Mutant: output() returns what was read so far without waiting.
OutputReadyNoWait(c) == proc[c] \in {"running", "exited"}

\* When Command::output() can return: both pipes read to their end and the
\* child waited for.
OutputReady(c) == proc[c] = "exited"

\* output() returns Ok(output), having reaped the child and closed the pipes,
\* and run_bridge runs to its return.
Return(c) ==
  /\ pc[c] = "wait"
  /\ OutputReady(c)
  /\ proc' = [proc EXCEPT ![c] = "reaped"]
  /\ pipes' = [pipes EXCEPT ![c] = "closed"]
  /\ parses' = [parses EXCEPT ![c] = IF Handle(out[c]).parsed THEN @ + 1 ELSE @]
  /\ ReturnWith(c, Handle(out[c]).result)
  /\ UNCHANGED <<cmd, action, payload, argv, out, bridgeCalls, spawns>>

\* The host issues one Call.
SeqCalls == {1}

Next ==
  \E c \in SeqCalls :
    \/ \E b \in BaseUrls, t \in Tokens : importToken(c, b, t)
    \/ connect(c)
    \/ \E m \in Modes : setMode(c, m)
    \/ disconnect(c)
    \/ \E b \in BaseUrls, s \in ServerIds, k \in AdminApiKeys, d \in Disguises :
         updateDisguise(c, b, s, k, d)
    \/ status(c)
    \/ Serialize(c)
    \/ SpawnOk(c)
    \/ SpawnFail(c)
    \/ ProcExit(c, Outputs)
    \/ Return(c)

Spec == Init /\ [][Next]_vars

\* The host issues the commands without arguments concurrently.
NextConc ==
  \E c \in Calls :
    \/ connect(c)
    \/ disconnect(c)
    \/ status(c)
    \/ Serialize(c)
    \/ SpawnOk(c)
    \/ SpawnFail(c)
    \/ ProcExit(c, ConcOutputs)
    \/ Return(c)

SpecConc == Init /\ [][NextConc]_vars

\* Concurrent Calls as in NextConc; when a Call returns does not depend on
\* what its backend wrote, so the backends write one of LiveOutputs.
NextLive ==
  \E c \in Calls :
    \/ connect(c)
    \/ disconnect(c)
    \/ status(c)
    \/ Serialize(c)
    \/ SpawnOk(c)
    \/ SpawnFail(c)
    \/ ProcExit(c, LiveOutputs)
    \/ Return(c)

\* The thread of a Call keeps running, and the operating system answers a
\* spawn; a backend process is not bound to exit.
SpecLive ==
  /\ Init
  /\ [][NextLive]_vars
  /\ \A c \in Calls :
       /\ WF_vars(Serialize(c))
       /\ WF_vars(SpawnOk(c) \/ SpawnFail(c))
       /\ WF_vars(Return(c))

\* ------------------------------------------------------------------ claims
\* The Call has returned from a backend process that ran.
Finished(c) == pc[c] = "returned" /\ proc[c] = "reaped"

\* The captured streams as run_bridge sees them.
StdoutTrimmed(c) == Trim(out[c].stdout)
StderrTrimmed(c) == Trim(FromUtf8Lossy(out[c].stderr))

\* The Call ran and its trimmed stdout went through serde_json::from_str as
\* an Envelope.
ParsedEnvelope(c) ==
  /\ Finished(c)
  /\ IsUtf8(out[c].stdout)
  /\ StdoutTrimmed(c) # <<>>
  /\ FromStr(StdoutTrimmed(c)).ok

Envelope(c) == FromStr(StdoutTrimmed(c)).v

\* The JSON document on stdout, read as a plain JSON value.
Document(c) == ParseValue(StdoutTrimmed(c)).v

\* The member of the document that holds an Envelope field: Some(value), or
\* None when the document has no such member.
Member(c, name, index) ==
  IF Document(c).t = "obj"
  THEN IF <<name>> \in DOMAIN Document(c).v THEN Some(Document(c).v[<<name>>]) ELSE None
  ELSE Some(Document(c).v[index])

\* C1: a Call whose backend ran and whose trimmed stdout parses as an Envelope
\* with ok = true succeeds with exactly the document's data member, or with
\* JSON null when there is none, whatever stderr holds and whether or not an
\* error member is present.
C1_OkReturnsData ==
  \A c \in Calls :
    ParsedEnvelope(c) /\ Envelope(c).ok =>
      bridgeResult[c] = Ok(UnwrapOr(Member(c, "data", 2), JNull))

\* C1 happens: a successful envelope with data and an error member, and text
\* on stderr.
C1_Witness ==
  \E c \in Calls :
    /\ ParsedEnvelope(c) /\ Envelope(c).ok
    /\ Member(c, "data", 2) \notin {None, Some(JNull)}
    /\ Member(c, "error", 3) # None
    /\ StderrTrimmed(c) # <<>>
    /\ bridgeResult[c].ok

\* The error string of the document: Some(text), or None when the member is
\* missing or null.
ErrorString(c) ==
  IF Member(c, "error", 3) \in {None, Some(JNull)} THEN None
  ELSE Some(Member(c, "error", 3).v.v)

\* C2: a Call whose trimmed stdout parses as an Envelope with ok = false fails
\* with the envelope's error string when it has one, else with the trimmed
\* stderr text when that is not empty, else with "Unknown bridge error".
C2_ErrorPriority ==
  \A c \in Calls :
    ParsedEnvelope(c) /\ ~Envelope(c).ok =>
      /\ ~bridgeResult[c].ok
      /\ bridgeResult[c].msg =
           IF ErrorString(c) # None THEN ErrorString(c).v
           ELSE IF StderrTrimmed(c) # <<>> THEN StderrTrimmed(c)
           ELSE UnknownErrorMsg

\* C2 happens: an error envelope with an error string while stderr holds
\* another text.
C2_Witness ==
  \E c \in Calls :
    /\ ParsedEnvelope(c) /\ ~Envelope(c).ok
    /\ ErrorString(c) # None
    /\ StderrTrimmed(c) # <<>>
    /\ StderrTrimmed(c) # ErrorString(c).v
    /\ ~bridgeResult[c].ok

\* C3: a Call whose backend ran and whose stdout is valid UTF-8 and empty
\* after trimming fails without parsing an envelope, with the trimmed stderr
\* text when that is not empty and with "Bridge returned empty response"
\* otherwise.
C3_EmptyOutput ==
  \A c \in Calls :
    Finished(c) /\ IsUtf8(out[c].stdout) /\ StdoutTrimmed(c) = <<>> =>
      /\ ~bridgeResult[c].ok
      /\ parses[c] = 0
      /\ bridgeResult[c].msg =
           IF StderrTrimmed(c) # <<>> THEN StderrTrimmed(c) ELSE EmptyResponseMsg

\* C3 happens: stdout holds whitespace only and stderr holds padded text.
C3_Witness ==
  \E c \in Calls :
    /\ Finished(c)
    /\ out[c].stdout # <<>> /\ StdoutTrimmed(c) = <<>>
    /\ StderrTrimmed(c) # <<>> /\ StderrTrimmed(c) # out[c].stderr
    /\ ~bridgeResult[c].ok

\* The text is one Envelope as the wire protocol defines it: one JSON object
\* with a boolean ok, and an error that, when present, is a string or null.
IsEnvelopeDocument(text) ==
  LET p == ParseValue(text) IN
  /\ p.ok
  /\ SkipWs(p.r) = <<>>
  /\ p.v.t = "obj"
  /\ <<"ok">> \in DOMAIN p.v.v
  /\ p.v.v[<<"ok">>].t = "bool"
  /\ <<"error">> \in DOMAIN p.v.v => p.v.v[<<"error">>].t \in {"str", "null"}

\* C4: a Call whose trimmed stdout is not empty and is not a valid Envelope
\* (malformed JSON, or JSON of another shape) fails with a message that
\* begins with "Invalid bridge JSON: ", whatever stderr holds.
C4_InvalidEnvelopeFails ==
  \A c \in Calls :
    /\ Finished(c)
    /\ IsUtf8(out[c].stdout)
    /\ StdoutTrimmed(c) # <<>>
    /\ ~IsEnvelopeDocument(StdoutTrimmed(c))
    => /\ ~bridgeResult[c].ok
       /\ Head(bridgeResult[c].msg) = InvalidJsonPrefix

\* C5: every failure run_bridge returns carries a message that is not empty.
C5_FailureHasMessage ==
  \A c \in Calls :
    pc[c] = "returned" /\ ~bridgeResult[c].ok => bridgeResult[c].msg # <<>>

\* C6: a command calls run_bridge once; it fails with exactly run_bridge's
\* message when run_bridge fails; when run_bridge succeeds with v, connect,
\* setMode, updateDisguise and status return v, and importToken and
\* disconnect return success with no value.
C6_ThinAdapter ==
  \A c \in Calls :
    pc[c] = "returned" =>
      /\ bridgeCalls[c] = 1
      /\ ~bridgeResult[c].ok => opResult[c] = Err(bridgeResult[c].msg)
      /\ bridgeResult[c].ok =>
           IF cmd[c] \in {"importToken", "disconnect"}
           THEN opResult[c] = Ok(Unit)
           ELSE opResult[c] = Ok(bridgeResult[c].val)

\* C6 happens: importToken returns no value although the backend sent one.
C6_Witness ==
  \E c \in Calls :
    /\ pc[c] = "returned"
    /\ cmd[c] = "importToken"
    /\ bridgeResult[c].ok
    /\ bridgeResult[c].val # JNull
    /\ opResult[c] = Ok(Unit)

\* The argument names of each command that takes arguments.
ArgumentNames ==
  [importToken |-> {<<"baseUrl">>, <<"token">>},
   setMode |-> {<<"mode">>},
   updateDisguise |-> {<<"baseUrl">>, <<"serverId">>, <<"adminApiKey">>, <<"disguise">>}]

\* The command of Call c passed its own name as the action and one JSON
\* object with exactly its argument names, or noArgs when it takes none.
Delegates(c, noArgs) ==
  /\ action[c] = cmd[c]
  /\ cmd[c] \in Commands
  /\ IF cmd[c] \in DOMAIN ArgumentNames
     THEN payload[c].t = "obj" /\ DOMAIN payload[c].v = ArgumentNames[cmd[c]]
     ELSE payload[c] = noArgs

\* C7 as stated: every command passes its own action name and an object of
\* exactly its argument names; connect, disconnect and status pass the empty
\* object {}.
C7_EmptyObjectPayload ==
  \A c \in Calls : pc[c] # "idle" => Delegates(c, JObj(EmptyMap))

\* C7 amended: every command passes its own action name; importToken, setMode
\* and updateDisguise pass an object of exactly their argument names;
\* connect, disconnect and status pass JSON null.
C7_NullPayload ==
  \A c \in Calls : pc[c] # "idle" => Delegates(c, JNull)

\* C7 happens: status ran its backend with the action status and the
\* payload text null.
C7_Witness ==
  \E c \in Calls :
    /\ pc[c] = "returned"
    /\ proc[c] = "reaped"
    /\ cmd[c] = "status"
    /\ payload[c] = JNull
    /\ argv[c] = <<BridgeScriptPath, "status", <<"null">>>>

Released(c) == proc[c] \in {"none", "reaped"} /\ pipes[c] \in {"none", "closed"}

C10_OneInteraction ==
  \A c \in Calls :
    /\ bridgeCalls[c] <= 1 /\ spawns[c] <= 1 /\ parses[c] <= 1
    /\ pc[c] # "idle" => bridgeCalls[c] = 1
    /\ spawns[c] = 1 /\ proc[c] = "none" => pc[c] = "returned"
    /\ pc[c] = "returned" /\ proc[c] = "none" =>
         /\ ~bridgeResult[c].ok /\ ~opResult[c].ok
         /\ parses[c] = 0
         /\ out[c] = NoOutput

\* C10 happens: the spawn failed and the Call returned the failure.
C10_Witness ==
  \E c \in Calls :
    /\ pc[c] = "returned"
    /\ spawns[c] = 1
    /\ proc[c] = "none"
    /\ Head(bridgeResult[c].msg) = SpawnFailedPrefix
====
